---- MODULE Spec2Model ----
\* TerraPortal backend (backend/server.js, kept here as src/unnamed/part_000):
\* the inventory document, the lifecycle request handlers and the background
\* job runner, as a state machine whose steps are the code between two awaits.
EXTENDS Integers, Sequences, FiniteSets, TLC

\* ---------------------------------------------------------------- bounds
\* Provision requests accepted over a run.
MaxDeployments == 1
\* Jobs started (accepted lifecycle requests) over a run.
MaxJobs == 2
\* Lines the executors report through onLog over a run, all jobs together.
MaxLines == 2
\* Jobs at work on the inventory at the same time: past their executor and not
\* ended, or with a flush that has not ended.
MaxActive == 1
\* writeInventory calls made over a run of the mirrored server.
MaxWrites == 3
\* if (logs.length % 3 === 0) flushLogs(...)
FlushEvery == 3

\* ---------------------------------------------------------------- values
\* JavaScript's undefined (a key that is absent reads as undefined, and
\* JSON.stringify drops an undefined property) and null.
Undefined == "undefined"
Null == "null"
\* The sentinel of the plan route.
NotSet == "(not set)"

\* A JavaScript object with string keys: the sequence of its <<key, value>>
\* entries in insertion order, every key at most once.
Keys(obj) == {obj[i][1] : i \in DOMAIN obj}

Get(obj, k) ==
    IF k \in Keys(obj)
    THEN obj[CHOOSE i \in DOMAIN obj : obj[i][1] = k][2]
    ELSE Undefined

\* obj[k] = v: an existing key keeps its position, a new key goes last.
Set(obj, k, v) ==
    IF k \in Keys(obj)
    THEN [i \in DOMAIN obj |-> IF obj[i][1] = k THEN <<k, v>> ELSE obj[i]]
    ELSE Append(obj, <<k, v>>)

\* { ...a, ...b }: the keys of a in their order, each with the value b gives
\* it if b has the key, then the keys only b has, in b's order.
Spread(a, b) ==
    [i \in DOMAIN a |->
        IF a[i][1] \in Keys(b) THEN <<a[i][1], Get(b, a[i][1])>> ELSE a[i]]
    \o SelectSeq(b, LAMBDA e : e[1] \notin Keys(a))

\* An object-valued request field that is missing (undefined): a value of the
\* type of the objects that is none of them.
NoObject == << <<Undefined, Undefined>> >>

\* ...(x || {}) and ...x of an undefined x both spread nothing.
OrEmpty(x) == IF x = NoObject THEN <<>> ELSE x

\* x || d for the strings of the model: undefined, null and '' are falsy.
OrElse(x, d) == IF x \in {Undefined, Null, ""} THEN d ELSE x

\* A diff loop that passes over the keys the old config does not have.
RECURSIVE DiffLoopOldKeys(_, _, _)
DiffLoopOldKeys(oldConfig, entries, diff) ==
    IF entries = <<>> THEN diff
    ELSE LET k == Head(entries)[1]
             v == Head(entries)[2]
         IN DiffLoopOldKeys(oldConfig, Tail(entries),
                IF k \in Keys(oldConfig) /\ Get(oldConfig, k) # v
                THEN Set(diff, k, [from |-> Get(oldConfig, k), to |-> v])
                ELSE diff)

\* The diff loop of the update route, over Object.entries(newConfig).
RECURSIVE DiffLoop(_, _, _)
DiffLoop(oldConfig, entries, diff) ==
    IF entries = <<>> THEN diff
    ELSE LET k == Head(entries)[1]
             v == Head(entries)[2]
         IN DiffLoop(oldConfig, Tail(entries),
                IF Get(oldConfig, k) # v
                THEN Set(diff, k, [from |-> Get(oldConfig, k), to |-> v])
                ELSE diff)

\* const newConfig = { ...oldConfig, ...config }
MergeConfig(oldConfig, config) == Spread(oldConfig, OrEmpty(config))

UpdateDiff(oldConfig, config) ==
    DiffLoop(oldConfig, MergeConfig(oldConfig, config), <<>>)

\* A plan route without the sentinel.
NullishKept(x) == x

\* x ?? '(not set)'
Nullish(x) == IF x \in {Undefined, Null} THEN NotSet ELSE x

RECURSIVE PlanLoop(_, _, _)
PlanLoop(oldConfig, entries, diff) ==
    IF entries = <<>> THEN diff
    ELSE LET k == Head(entries)[1]
             v == Head(entries)[2]
         IN PlanLoop(oldConfig, Tail(entries),
                IF Get(oldConfig, k) # v
                THEN Set(diff, k, [from |-> Nullish(Get(oldConfig, k)), to |-> v])
                ELSE diff)

PlanDiff(oldConfig, config) ==
    PlanLoop(oldConfig, MergeConfig(oldConfig, config), <<>>)

\* buildTags: the five mandatory tags, then the extra tags spread over them.
buildTags(ticketNumber, environment, deploymentId, extraTags, now) ==
    Spread(<< <<"ticket", ticketNumber>>,
              <<"environment", OrElse(environment, "dev")>>,
              <<"managed_by", "terraform-portal">>,
              <<"deployment_id", deploymentId>>,
              <<"created_at", now>> >>,
           OrEmpty(extraTags))

\* Object.keys(RESOURCE_TYPES)
RESOURCE_TYPES == {"vm", "storage", "aks", "sql", "keyvault", "vnet"}

\* RESOURCE_TYPES: the fields of each resource type marked immutable: true.
ImmutableFields(resourceType) ==
    CASE resourceType = "vm" -> {"name", "location", "adminUsername"}
      [] resourceType = "storage" -> {"name", "location"}
      [] resourceType = "aks" -> {"name", "location"}
      [] resourceType = "sql" -> {"name", "location", "adminLogin"}
      [] resourceType = "keyvault" -> {"name", "location"}
      [] resourceType = "vnet" -> {"name", "location", "addressSpace"}
      [] OTHER -> {}

\* ---------------------------------------------------------------- inputs
\* Request bodies are drawn from these sets; Undefined is a missing field.
ResourceTypeInputs == {"vnet", Undefined}
ProvisionConfigInputs == {<< <<"name", "v1">> >>, NoObject}
UpdateConfigInputs ==
    { << <<"name", "v1">> >>,
      << <<"dnsServers", "8.8.8.8">> >>,
      NoObject }
ProvisionTicketInputs == {"J-1", Undefined}
UpdateTicketInputs == {Undefined}
EnvironmentInputs == {Undefined}
TagInputs == {NoObject}
ActorInputs == {Undefined}
ReasonInputs == {Undefined}

\* A generator that hands out an id twice.
IdPoolRepeating == <<"d1", "d1", "d3", "d4">>

\* uuidv4() for deployments: the n-th id handed out.
IdPool == <<"d1", "d2", "d3", "d4">>
Ids == {IdPool[i] : i \in DOMAIN IdPool}

\* new Date().toISOString(): a value of its own for each block of code that
\* reads the clock, which is the request handler that starts job j (phase 1),
\* the status write of job j (phase 2) or its audit append (phase 3). The
\* uuidv4() of an audit entry is likewise the number of the job appending it.
Now(j, phase) == 3 * j + phase

\* ---------------------------------------------------------------- state
VARIABLES
    inventory,  \* the persisted document { resources, history }
    nextId,     \* deployment ids handed out so far
    req,        \* the HTTP request in flight, or the last one answered
    jobs,       \* the runDeploymentJob calls made so far, in call order
    flushes,    \* the flushLogs calls that have not finished
    blob,       \* the inventory.json blob of the remote mirror: <<>> or <<doc>>
    writes,     \* the writeInventory calls of a mirrored server, in call order
    got         \* what the last readInventory of a mirrored server returned

\* The state of the remote mirror and of the calls that use it. With DEMO_MODE
\* on (the default) or no ARM_CLIENT_ID, azureBlobUpload and azureBlobDownload
\* return null at once: nothing of it changes and `inventory`, the local
\* file, is the whole store.
mirror == <<blob, writes, got>>

vars == <<inventory, nextId, req, jobs, flushes, mirror>>

\* fs.writeFileSync(LOCAL_INVENTORY, { resources: [], history: [] })
EmptyInventory == [resources |-> <<>>, history |-> <<>>]

\* The argument `changes` of runDeploymentJob and of appendAuditHistory: the
\* config of a provision, the diff of an update, { reason } of a decommission.
NoChanges == [kind |-> "none", config |-> <<>>, diff |-> <<>>, reason |-> Undefined]
ConfigChanges(config) == [NoChanges EXCEPT !.kind = "config", !.config = config]
DiffChanges(diff) == [NoChanges EXCEPT !.kind = "diff", !.diff = diff]
ReasonChanges(reason) == [NoChanges EXCEPT !.kind = "reason", !.reason = reason]

\* What res.json / res.status(..).json sent: code 0 is "nothing sent yet".
NoRes == [code |-> 0, error |-> "", status |-> "", diff |-> <<>>,
          oldConfig |-> <<>>, newConfig |-> <<>>]
\* The fields of req.body the routes decide on; a route that does not use a
\* field leaves it undefined here.
NoBody == [resourceType |-> Undefined, config |-> NoObject,
           ticketNumber |-> Undefined]
Body(resourceType, config, ticketNumber) ==
    [resourceType |-> resourceType, config |-> config,
     ticketNumber |-> ticketNumber]

Idle == [op |-> "none", pc |-> "idle", id |-> "", body |-> NoBody,
         inv |-> EmptyInventory, changes |-> NoChanges, res |-> NoRes]

\* inv.resources.find(r => r.id === id): the index of the first match, or 0.
Find(inv, id) ==
    IF \E i \in DOMAIN inv.resources : inv.resources[i].id = id
    THEN CHOOSE i \in DOMAIN inv.resources :
            /\ inv.resources[i].id = id
            /\ \A j \in DOMAIN inv.resources :
                    inv.resources[j].id = id => i <= j
    ELSE 0

\* readInventory(): the document as it is persisted when the read is served.
readInventory == inventory

\* A handler is entered when no other request is between its read and its
\* response.
Free == req.pc \in {"idle", "done"}

\* The error texts of the routes, under the names the specification gives them.
ValidationError == "resourceType, config, and ticketNumber are required"
NotFoundError == "Resource not found"
InvalidStateError == "Cannot update resource in status"
NoChangeError == "No changes detected"
AlreadyInProgressError == "Already"

Answered(op, id, body, res) ==
    [op |-> op, pc |-> "done", id |-> id, body |-> body,
     inv |-> EmptyInventory, changes |-> NoChanges, res |-> res]

Failure(code, error, status) ==
    [NoRes EXCEPT !.code = code, !.error = error, !.status = status]

\* !x of a string field and of an object field of a request.
Missing(x) == x \in {Undefined, Null, ""}
MissingObject(x) == x = NoObject


\* ---------------------------------------------------------------- job start
\* A log line: the n-th line pushed to the buffer of job j (line 1 is
\* "-> Action: ..."); n = 0 is the "Error: ..." line of the catch block, which
\* is written to the record without being pushed to the buffer.
Line(j, n) == [job |-> j, n |-> n]

\* runDeploymentJob up to its first await: logs = [], onLog('Action: ...'),
\* and runTerraform is called. One line does not make a flush.
NewJob(id, action, changes) ==
    [id |-> id, action |-> action, changes |-> changes,
     logs |-> <<Line(Len(jobs) + 1, 1)>>, steps |-> 0,
     pc |-> "exec", path |-> "", inv |-> EmptyInventory]

\* The ids a request can name: every id handed out, and one that never was.
UnknownId == "d0"
RequestIds == {IdPool[i] : i \in 1..nextId} \cup {UnknownId}

\* ---------------------------------------------------------------- provision
\* A server that does not ask for the ticket.
ProvisionValidNoTicket(resourceType, config, ticketNumber) ==
    ~(Missing(resourceType) \/ MissingObject(config))

\* !(!resourceType || !config || !ticketNumber)
ProvisionValid(resourceType, config, ticketNumber) ==
    ~(Missing(resourceType) \/ MissingObject(config) \/ Missing(ticketNumber))

\* app.post('/api/provision'): the 400 of a missing field, before any await.
ProvisionReject(resourceType, config, ticketNumber) ==
    /\ Free
    /\ ~ProvisionValid(resourceType, config, ticketNumber)
    /\ req' = Answered("provision", "",
                  Body(resourceType, config, ticketNumber),
                  Failure(400, ValidationError, ""))
    /\ UNCHANGED <<mirror, inventory, nextId, jobs, flushes>>

inventoryEntry(deploymentId, resourceType, config, ticketNumber, environment, tags, requestedBy, timestamp) ==
    [id |-> deploymentId,
     ticketNumber |-> ticketNumber,
     resourceType |-> resourceType,
     environment |-> OrElse(environment, "dev"),
     config |-> config,
     tags |-> buildTags(ticketNumber, environment, deploymentId, tags,
                        ToString(timestamp)),
     status |-> "provisioning",
     requestedBy |-> OrElse(requestedBy, "unknown"),
     createdAt |-> timestamp,
     updatedAt |-> timestamp,
     lastUpdatedAt |-> 0,
     decommissionedAt |-> 0,
     outputs |-> <<>>,
     logs |-> <<>>,
     changeHistory |-> << [action |-> "provision",
                           timestamp |-> timestamp,
                           actor |-> OrElse(requestedBy, "unknown"),
                           ticket |-> ticketNumber,
                           changes |-> config,
                           diff |-> <<>>,
                           reason |-> Undefined] >>]

\* The entry is built, then `inv = await readInventory()` is served and the
\* entry pushed onto the copy the handler holds.
ProvisionRead(resourceType, config, ticketNumber, environment, tags, requestedBy) ==
    /\ Free
    /\ ProvisionValid(resourceType, config, ticketNumber)
    /\ Cardinality({j \in DOMAIN jobs : jobs[j].action = "provision"})
            < MaxDeployments
    /\ Len(jobs) < MaxJobs
    /\ LET deploymentId == IdPool[nextId + 1]
           entry == inventoryEntry(deploymentId, resourceType, config,
                        ticketNumber, environment, tags, requestedBy,
                        Now(Len(jobs) + 1, 1))
       IN req' = [op |-> "provision", pc |-> "read", id |-> deploymentId,
                  body |-> Body(resourceType, config, ticketNumber),
                  inv |-> [readInventory EXCEPT
                              !.resources = Append(@, entry)],
                  changes |-> ConfigChanges(config), res |-> NoRes]
    /\ nextId' = nextId + 1
    /\ UNCHANGED <<mirror, inventory, jobs, flushes>>

\* await writeInventory(inv)
ProvisionWrite ==
    /\ req.op = "provision" /\ req.pc = "read"
    /\ inventory' = req.inv
    /\ req' = [req EXCEPT !.pc = "written"]
    /\ UNCHANGED <<mirror, nextId, jobs, flushes>>

\* res.json({ deploymentId, status: 'provisioning' }), then runDeploymentJob.
ProvisionReturn ==
    /\ req.op = "provision" /\ req.pc = "written"
    /\ req' = Answered("provision", req.id, req.body,
                  [NoRes EXCEPT !.code = 200, !.status = "provisioning"])
    /\ jobs' = Append(jobs, NewJob(req.id, "provision", req.changes))
    /\ UNCHANGED <<mirror, inventory, nextId, flushes>>

\* ---------------------------------------------------------------- update
\* app.patch('/api/resources/:id'): `inv = await readInventory()` is served.
UpdateRead(id) ==
    /\ Free
    /\ req' = [op |-> "update", pc |-> "read", id |-> id, body |-> NoBody,
               inv |-> readInventory, changes |-> NoChanges, res |-> NoRes]
    /\ UNCHANGED <<mirror, inventory, nextId, jobs, flushes>>

\* if (!resource) return res.status(404)
UpdateNotFound ==
    /\ req.op = "update" /\ req.pc = "read"
    /\ Find(req.inv, req.id) = 0
    /\ req' = Answered("update", req.id, NoBody,
                  Failure(404, NotFoundError, ""))
    /\ UNCHANGED <<mirror, inventory, nextId, jobs, flushes>>

\* A server that lets a failed update be retried.
UpdatableStatusesWithRetry == {"deployed", "update-failed"}

\* ['deployed']
UpdatableStatuses == {"deployed"}

\* if (!['deployed'].includes(resource.status)) return res.status(400)
UpdateInvalidState ==
    /\ req.op = "update" /\ req.pc = "read"
    /\ Find(req.inv, req.id) # 0
    /\ LET resource == req.inv.resources[Find(req.inv, req.id)]
       IN /\ resource.status \notin UpdatableStatuses
          /\ req' = Answered("update", req.id, NoBody,
                        Failure(400, InvalidStateError, resource.status))
    /\ UNCHANGED <<mirror, inventory, nextId, jobs, flushes>>

\* A server that stamps the record before it looks at the diff.
UpdateNoChangeTouching(config) ==
    /\ req.op = "update" /\ req.pc = "read"
    /\ Find(req.inv, req.id) # 0
    /\ LET i == Find(req.inv, req.id)
           resource == req.inv.resources[i]
       IN /\ resource.status \in UpdatableStatuses
          /\ UpdateDiff(resource.config, config) = <<>>
          /\ inventory' = [req.inv EXCEPT !.resources[i].updatedAt =
                                             Now(Len(jobs) + 1, 1)]
          /\ req' = Answered("update", req.id,
                        Body(Undefined, config, Undefined),
                        Failure(400, NoChangeError, ""))
    /\ UNCHANGED <<mirror, nextId, jobs, flushes>>

\* if (Object.keys(diff).length === 0) return res.status(400)
UpdateNoChange(config) ==
    /\ req.op = "update" /\ req.pc = "read"
    /\ Find(req.inv, req.id) # 0
    /\ LET resource == req.inv.resources[Find(req.inv, req.id)]
       IN /\ resource.status \in UpdatableStatuses
          /\ UpdateDiff(resource.config, config) = <<>>
          /\ req' = Answered("update", req.id,
                        Body(Undefined, config, Undefined),
                        Failure(400, NoChangeError, ""))
    /\ UNCHANGED <<mirror, inventory, nextId, jobs, flushes>>

\* The record as the update route leaves it before writeInventory.
UpdatedResource(resource, config, ticketNumber, tags, requestedBy, now) ==
    [resource EXCEPT
        !.config = MergeConfig(resource.config, config),
        !.tags = buildTags(OrElse(ticketNumber, resource.ticketNumber),
                           resource.environment, resource.id,
                           Spread(OrEmpty(resource.tags), OrEmpty(tags)),
                           ToString(now)),
        !.status = "updating",
        !.updatedAt = now,
        !.changeHistory = Append(@,
            [action |-> "update",
             timestamp |-> now,
             actor |-> OrElse(requestedBy, "unknown"),
             ticket |-> OrElse(ticketNumber, resource.ticketNumber),
             changes |-> <<>>,
             diff |-> UpdateDiff(resource.config, config),
             reason |-> Undefined])]

\* The diff is not empty: the record is changed in the copy and
\* `await writeInventory(inv)` persists the copy.
UpdateWrite(config, ticketNumber, tags, requestedBy) ==
    /\ req.op = "update" /\ req.pc = "read"
    /\ Find(req.inv, req.id) # 0
    /\ Len(jobs) < MaxJobs
    /\ LET i == Find(req.inv, req.id)
           resource == req.inv.resources[i]
           diff == UpdateDiff(resource.config, config)
           inv == [req.inv EXCEPT !.resources[i] =
                      UpdatedResource(resource, config, ticketNumber, tags,
                                      requestedBy, Now(Len(jobs) + 1, 1))]
       IN /\ resource.status \in UpdatableStatuses
          /\ diff # <<>>
          /\ inventory' = inv
          /\ req' = [req EXCEPT !.pc = "written", !.inv = inv,
                                !.body = Body(Undefined, config, ticketNumber),
                                !.changes = DiffChanges(diff)]
    /\ UNCHANGED <<mirror, nextId, jobs, flushes>>

\* res.json({ id, status: 'updating', diff }), then runDeploymentJob.
UpdateReturn ==
    /\ req.op = "update" /\ req.pc = "written"
    /\ req' = Answered("update", req.id, req.body,
                  [NoRes EXCEPT !.code = 200, !.status = "updating",
                                !.diff = req.changes.diff])
    /\ jobs' = Append(jobs, NewJob(req.id, "update", req.changes))
    /\ UNCHANGED <<mirror, inventory, nextId, flushes>>

\* ---------------------------------------------------------------- decommission
\* app.delete('/api/resources/:id'): `inv = await readInventory()` is served.
DecommissionRead(id) ==
    /\ Free
    /\ req' = [op |-> "decommission", pc |-> "read", id |-> id,
               body |-> NoBody, inv |-> readInventory, changes |-> NoChanges, res |-> NoRes]
    /\ UNCHANGED <<mirror, inventory, nextId, jobs, flushes>>

\* A server whose 404 does not return: it goes on to start the job.
DecommissionNotFoundNoReturn ==
    /\ req.op = "decommission" /\ req.pc = "read"
    /\ Find(req.inv, req.id) = 0
    /\ req' = Answered("decommission", req.id, NoBody,
                  Failure(404, NotFoundError, ""))
    /\ jobs' = Append(jobs, NewJob(req.id, "decommission", NoChanges))
    /\ UNCHANGED <<mirror, inventory, nextId, flushes>>

\* if (!resource) return res.status(404)
DecommissionNotFound ==
    /\ req.op = "decommission" /\ req.pc = "read"
    /\ Find(req.inv, req.id) = 0
    /\ req' = Answered("decommission", req.id, NoBody,
                  Failure(404, NotFoundError, ""))
    /\ UNCHANGED <<mirror, inventory, nextId, jobs, flushes>>

\* A server that only refuses what is already decommissioned.
DecommissionGuardDoneOnly(status) == status \in {"decommissioned"}

\* if (['decommissioning', 'decommissioned'].includes(resource.status))
DecommissionGuard(status) == status \in {"decommissioning", "decommissioned"}

DecommissionAlready ==
    /\ req.op = "decommission" /\ req.pc = "read"
    /\ Find(req.inv, req.id) # 0
    /\ LET resource == req.inv.resources[Find(req.inv, req.id)]
       IN /\ DecommissionGuard(resource.status)
          /\ req' = Answered("decommission", req.id, NoBody,
                        Failure(400, AlreadyInProgressError, resource.status))
    /\ UNCHANGED <<mirror, inventory, nextId, jobs, flushes>>

DecommissionedResource(resource, ticketNumber, requestedBy, reason, now) ==
    [resource EXCEPT
        !.status = "decommissioning",
        !.updatedAt = now,
        !.changeHistory = Append(@,
            [action |-> "decommission",
             timestamp |-> now,
             actor |-> OrElse(requestedBy, "unknown"),
             ticket |-> OrElse(ticketNumber, resource.ticketNumber),
             changes |-> <<>>,
             diff |-> <<>>,
             reason |-> OrElse(reason, "Manual decommission")])]

DecommissionWrite(ticketNumber, requestedBy, reason) ==
    /\ req.op = "decommission" /\ req.pc = "read"
    /\ Find(req.inv, req.id) # 0
    /\ Len(jobs) < MaxJobs
    /\ LET i == Find(req.inv, req.id)
           resource == req.inv.resources[i]
           inv == [req.inv EXCEPT !.resources[i] =
                      DecommissionedResource(resource, ticketNumber,
                                             requestedBy, reason,
                                             Now(Len(jobs) + 1, 1))]
       IN /\ ~DecommissionGuard(resource.status)
          /\ inventory' = inv
          /\ req' = [req EXCEPT !.pc = "written", !.inv = inv,
                                !.body = Body(Undefined, NoObject, ticketNumber),
                                !.changes = ReasonChanges(reason)]
    /\ UNCHANGED <<mirror, nextId, jobs, flushes>>

\* res.json({ id, status: 'decommissioning' }), then runDeploymentJob.
DecommissionReturn ==
    /\ req.op = "decommission" /\ req.pc = "written"
    /\ req' = Answered("decommission", req.id, req.body,
                  [NoRes EXCEPT !.code = 200, !.status = "decommissioning"])
    /\ jobs' = Append(jobs, NewJob(req.id, "decommission", req.changes))
    /\ UNCHANGED <<mirror, inventory, nextId, flushes>>

\* ---------------------------------------------------------------- plan, reads
\* app.post('/api/resources/:id/plan'): one read, no write, then the answer.
Plan(id, config) ==
    /\ Free
    /\ LET inv == readInventory
           i == Find(inv, id)
       IN req' = IF i = 0
                 THEN Answered("plan", id, Body(Undefined, config, Undefined),
                               Failure(404, "Not found", ""))
                 ELSE Answered("plan", id, Body(Undefined, config, Undefined),
                        [NoRes EXCEPT
                           !.code = 200,
                           !.diff = PlanDiff(inv.resources[i].config, config),
                           !.oldConfig = inv.resources[i].config,
                           !.newConfig = MergeConfig(inv.resources[i].config,
                                                     config)])
    /\ UNCHANGED <<mirror, inventory, nextId, jobs, flushes>>

\* app.get('/api/inventory') and app.get('/api/history'): the document is read
\* and sent.
GetInventory(route) ==
    /\ Free
    /\ req' = Answered(route, "", NoBody, [NoRes EXCEPT !.code = 200])
    /\ UNCHANGED <<mirror, inventory, nextId, jobs, flushes>>

\* app.get('/api/inventory/:id') and app.get('/api/resources/:id/status'): the
\* record is looked up in the document read; the answer is kept by its code and
\* the status it shows.
GetResource(route, id) ==
    /\ Free
    /\ LET inv == readInventory
           i == Find(inv, id)
       IN req' = IF i = 0
                 THEN Answered(route, id, NoBody, Failure(404, "Not found", ""))
                 ELSE Answered(route, id, NoBody,
                        [NoRes EXCEPT !.code = 200,
                                      !.status = inv.resources[i].status])
    /\ UNCHANGED <<mirror, inventory, nextId, jobs, flushes>>

\* ---------------------------------------------------------------- job runner
\* flushLogs(deploymentId, logs) is called and not awaited: it holds the
\* buffer itself (the array, not a copy) and has read nothing yet.
NewFlush(j, at) == [job |-> j, at |-> at, read |-> FALSE, inv |-> EmptyInventory]

\* onLog(line) of job j: push, and every third line start a flush.
onLog(j) ==
    LET logs == Append(jobs[j].logs, Line(j, Len(jobs[j].logs) + 1))
    IN /\ jobs' = [jobs EXCEPT ![j].logs = logs, ![j].steps = @ + 1]
       /\ flushes' = IF Len(logs) % FlushEvery = 0
                      THEN flushes \cup {NewFlush(j, Len(logs))}
                      ELSE flushes

\* Job j is at work on the inventory.
Active(j) ==
    \/ jobs[j].pc \notin {"exec", "done", "escaped"}
    \/ \E f \in flushes : f.job = j

\* Job j may start to work on the inventory.
MayStart(j) ==
    Active(j) \/ Cardinality({k \in DOMAIN jobs : Active(k)}) < MaxActive

\* The lines the executors have reported so far.
RECURSIVE LinesReported(_)
LinesReported(n) == IF n = 0 THEN 0 ELSE LinesReported(n - 1) + jobs[n].steps

\* The executor (runTerraform) reports a line.
ExecLog(j) ==
    /\ jobs[j].pc = "exec"
    /\ LinesReported(Len(jobs)) < MaxLines
    /\ (Len(jobs[j].logs) + 1) % FlushEvery = 0 => MayStart(j)
    /\ onLog(j)
    /\ UNCHANGED <<mirror, inventory, nextId, req>>

\* The executor returns its outputs and `inv = await readInventory()` of the
\* try block is served.
ExecReturn(j) ==
    /\ jobs[j].pc = "exec"
    /\ MayStart(j)
    /\ jobs' = [jobs EXCEPT ![j].pc = "write", ![j].path = "success",
                            ![j].inv = readInventory]
    /\ UNCHANGED <<mirror, inventory, nextId, req, flushes>>

\* The executor throws and `inv = await readInventory()` of the catch block is
\* served.
ExecThrow(j) ==
    /\ jobs[j].pc = "exec"
    /\ MayStart(j)
    /\ jobs' = [jobs EXCEPT ![j].pc = "write", ![j].path = "failure",
                            ![j].inv = readInventory]
    /\ UNCHANGED <<mirror, inventory, nextId, req, flushes>>

\* The status the try block sets.
SuccessStatus(action) ==
    IF action = "decommission" THEN "decommissioned" ELSE "deployed"

\* A catch block with a status of its own for a failed decommission.
FailureStatusPerAction(action) ==
    IF action = "provision" THEN "failed"
    ELSE IF action = "decommission" THEN "decommission-failed"
    ELSE "update-failed"

\* A catch block that ends a failed decommission as a successful one.
FailureStatusAsSuccess(action) ==
    IF action = "provision" THEN "failed"
    ELSE IF action = "decommission" THEN "decommissioned" ELSE "update-failed"

\* The status the catch block sets.
FailureStatus(action) ==
    IF action = "provision" THEN "failed" ELSE "update-failed"

\* A catch block that drops the outputs of the record (outputs = undefined).
TerminalResourceDroppingOutputs(resource, job, now) ==
    IF job.path = "success"
    THEN [resource EXCEPT
            !.status = SuccessStatus(job.action),
            !.outputs = IF job.action \in {"provision", "update"}
                        THEN <<>> ELSE @,
            !.lastUpdatedAt = IF job.action = "update" THEN now ELSE @,
            !.decommissionedAt = IF job.action = "decommission" THEN now ELSE @,
            !.logs = @ \o job.logs,
            !.updatedAt = now]
    ELSE [resource EXCEPT
            !.status = FailureStatus(job.action),
            !.outputs = NoObject,
            !.logs = @ \o job.logs \o <<Line(job.logs[1].job, 0)>>,
            !.updatedAt = now]

\* The record as the try block (path = success) or the catch block leaves it.
TerminalResource(resource, job, now) ==
    IF job.path = "success"
    THEN [resource EXCEPT
            !.status = SuccessStatus(job.action),
            !.outputs = IF job.action \in {"provision", "update"}
                        THEN <<>> ELSE @,
            !.lastUpdatedAt = IF job.action = "update" THEN now ELSE @,
            !.decommissionedAt = IF job.action = "decommission" THEN now ELSE @,
            !.logs = @ \o job.logs,
            !.updatedAt = now]
    ELSE [resource EXCEPT
            !.status = FailureStatus(job.action),
            !.logs = @ \o job.logs \o <<Line(job.logs[1].job, 0)>>,
            !.updatedAt = now]

\* if (resource) { ...; await writeInventory(inv) }
JobWrite(j) ==
    /\ jobs[j].pc = "write"
    /\ LET i == Find(jobs[j].inv, jobs[j].id)
       IN inventory' =
            IF i = 0 THEN inventory
            ELSE [jobs[j].inv EXCEPT !.resources[i] =
                     TerminalResource(@, jobs[j], Now(j, 2))]
    /\ jobs' = [jobs EXCEPT ![j].pc = "audit", ![j].inv = EmptyInventory]
    /\ UNCHANGED <<mirror, nextId, req, flushes>>

\* appendAuditHistory: `inv = await readInventory()` is served.
JobAuditRead(j) ==
    /\ jobs[j].pc = "audit"
    /\ jobs' = [jobs EXCEPT ![j].pc = "auditWrite", ![j].inv = readInventory]
    /\ UNCHANGED <<mirror, inventory, nextId, req, flushes>>

\* inv.history.unshift({...})
appendAuditHistory(inv, id, deploymentId, action, actor, changes, result, now) ==
    [inv EXCEPT !.history =
        << [id |-> id, deploymentId |-> deploymentId, action |-> action,
            actor |-> OrElse(actor, "system"), changes |-> changes,
            result |-> result, timestamp |-> now] >> \o @]

\* appendAuditHistory: unshift and `await writeInventory(inv)`; on the success
\* path onLog('... complete') follows.
JobAuditWrite(j) ==
    /\ jobs[j].pc = "auditWrite"
    /\ inventory' = appendAuditHistory(jobs[j].inv, j, jobs[j].id,
                        jobs[j].action, "system", jobs[j].changes,
                        jobs[j].path, Now(j, 3))
    /\ IF jobs[j].path = "success"
       THEN LET logs == Append(jobs[j].logs, Line(j, Len(jobs[j].logs) + 1))
            IN /\ jobs' = [jobs EXCEPT ![j].pc = "done",
                                       ![j].inv = EmptyInventory,
                                       ![j].logs = logs]
               /\ flushes' = IF Len(logs) % FlushEvery = 0
                              THEN flushes \cup {NewFlush(j, Len(logs))}
                              ELSE flushes
       ELSE /\ jobs' = [jobs EXCEPT ![j].pc = "done", ![j].inv = EmptyInventory]
            /\ flushes' = flushes
    /\ UNCHANGED <<mirror, nextId, req>>

\* An await of the try block after the executor rejects: writeInventory of the
\* status write, or readInventory or writeInventory of appendAuditHistory,
\* throws (the file cannot be read, parsed or written). Control goes to the
\* catch block, whose `inv = await readInventory()` is served.
TryThrow(j) ==
    /\ jobs[j].pc \in {"write", "audit", "auditWrite"}
    /\ jobs[j].path = "success"
    /\ jobs' = [jobs EXCEPT ![j].pc = "write", ![j].path = "failure",
                            ![j].inv = readInventory]
    /\ UNCHANGED <<mirror, inventory, nextId, req, flushes>>

\* An await of the catch block rejects: nothing catches it, the promise
\* runDeploymentJob returned is rejected and the job does nothing more.
CatchThrow(j) ==
    /\ jobs[j].pc \in {"write", "audit", "auditWrite"}
    /\ jobs[j].path = "failure"
    /\ jobs' = [jobs EXCEPT ![j].pc = "escaped", ![j].inv = EmptyInventory]
    /\ UNCHANGED <<mirror, inventory, nextId, req, flushes>>

\* flushLogs: `inv = await readInventory()` is served.
FlushRead(f) ==
    /\ ~f.read
    /\ flushes' = (flushes \ {f}) \cup
                      {[f EXCEPT !.read = TRUE, !.inv = readInventory]}
    /\ UNCHANGED <<mirror, inventory, nextId, req, jobs>>

\* A flushLogs that sets the logs in the document as it is at the write.
FlushWriteOnCurrent(f) ==
    /\ f.read
    /\ LET i == Find(inventory, jobs[f.job].id)
       IN inventory' =
            IF i = 0 THEN inventory
            ELSE [inventory EXCEPT !.resources[i].logs = jobs[f.job].logs]
    /\ flushes' = flushes \ {f}
    /\ UNCHANGED <<mirror, nextId, req, jobs>>

\* flushLogs: if (resource) { resource.logs = logs; await writeInventory(inv) }
\* where logs is the job's buffer as it is at the write.
FlushWrite(f) ==
    /\ f.read
    /\ LET i == Find(f.inv, jobs[f.job].id)
       IN inventory' =
            IF i = 0 THEN inventory
            ELSE [f.inv EXCEPT !.resources[i].logs = jobs[f.job].logs]
    /\ flushes' = flushes \ {f}
    /\ UNCHANGED <<mirror, nextId, req, jobs>>

\* flushLogs: readInventory or writeInventory throws; catch (_) {} ends it.
FlushThrow(f) ==
    /\ flushes' = flushes \ {f}
    /\ UNCHANGED <<mirror, inventory, nextId, req, jobs>>

\* ---------------------------------------------------------------- init
\* The server starts on the inventory file it finds. With no file it creates
\* the empty document.
Init ==
    /\ inventory = EmptyInventory
    /\ nextId = 0
    /\ req = Idle
    /\ jobs = <<>>
    /\ flushes = {}
    /\ blob = <<>>
    /\ writes = <<>>
    /\ got = <<>>

\* With a file, it starts on the document an earlier run of the server left.
\* The earlier run taken here provisioned "d1" (its job 0) and the job
\* succeeded; no job of the earlier run is running any more.
Job0(config) ==
    [id |-> IdPool[1], action |-> "provision",
     changes |-> ConfigChanges(config),
     logs |-> <<Line(0, 1)>>, steps |-> 0,
     pc |-> "write", path |-> "success", inv |-> EmptyInventory]

\* The document that run left: the entry of the provision route, the try block
\* of the job on it, and the job's audit entry.
RestartInventoryOf(config) ==
    LET job == Job0(config)
        entry == inventoryEntry(job.id, "vnet", config, "J-1",
                                Undefined, NoObject, Undefined, Now(0, 1))
        written == [EmptyInventory EXCEPT
                      !.resources = <<TerminalResource(entry, job, Now(0, 2))>>]
    IN appendAuditHistory(written, 0, job.id, job.action, "system",
                          job.changes, job.path, Now(0, 3))

RestartInventory == RestartInventoryOf(<< <<"name", "v1">> >>)

InitRestart ==
    /\ inventory = RestartInventory
    /\ nextId = 1
    /\ req = Idle
    /\ jobs = <<>>
    /\ flushes = {}
    /\ blob = <<>>
    /\ writes = <<>>
    /\ got = <<>>

\* ---------------------------------------------------------------- next
Next ==
    \/ \E rt \in ResourceTypeInputs, c \in ProvisionConfigInputs,
          t \in ProvisionTicketInputs : ProvisionReject(rt, c, t)
    \/ \E rt \in ResourceTypeInputs, c \in ProvisionConfigInputs,
          t \in ProvisionTicketInputs, e \in EnvironmentInputs,
          tg \in TagInputs, by \in ActorInputs :
            ProvisionRead(rt, c, t, e, tg, by)
    \/ ProvisionWrite
    \/ ProvisionReturn
    \/ \E id \in RequestIds : UpdateRead(id)
    \/ UpdateNotFound
    \/ UpdateInvalidState
    \/ \E c \in UpdateConfigInputs : UpdateNoChange(c)
    \/ \E c \in UpdateConfigInputs, t \in UpdateTicketInputs,
          tg \in TagInputs, by \in ActorInputs : UpdateWrite(c, t, tg, by)
    \/ UpdateReturn
    \/ \E id \in RequestIds : DecommissionRead(id)
    \/ DecommissionNotFound
    \/ DecommissionAlready
    \/ \E t \in UpdateTicketInputs, by \in ActorInputs, r \in ReasonInputs :
            DecommissionWrite(t, by, r)
    \/ DecommissionReturn
    \/ \E id \in RequestIds, c \in UpdateConfigInputs : Plan(id, c)
    \/ \E route \in {"inventory", "history"} : GetInventory(route)
    \/ \E route \in {"resource", "status"}, id \in RequestIds :
            GetResource(route, id)
    \/ \E j \in DOMAIN jobs : ExecLog(j)
    \/ \E j \in DOMAIN jobs : ExecReturn(j)
    \/ \E j \in DOMAIN jobs : ExecThrow(j)
    \/ \E j \in DOMAIN jobs : JobWrite(j)
    \/ \E j \in DOMAIN jobs : JobAuditRead(j)
    \/ \E j \in DOMAIN jobs : JobAuditWrite(j)
    \/ \E f \in flushes : FlushRead(f)
    \/ \E f \in flushes : FlushWrite(f)

Spec == Init /\ [][Next]_vars

SpecRestart == InitRestart /\ [][Next]_vars

\* Spec and SpecRestart are the server on storage that never fails. Here the
\* reads and writes of the inventory inside a job or a flush may also throw.
NextFaulty ==
    \/ Next
    \/ \E j \in DOMAIN jobs : TryThrow(j)
    \/ \E j \in DOMAIN jobs : CatchThrow(j)
    \/ \E f \in flushes : FlushThrow(f)

SpecFaulty == Init /\ [][NextFaulty]_vars

\* The server on the document an earlier run left, receiving update requests
\* only, whose configs name updatable fields, immutable fields, or both.
FieldUpdateInputs ==
    { << <<"dnsServers", "8.8.8.8">> >>,
      << <<"name", "v2">> >>,
      << <<"addressSpace", "10.1.0.0/16">>, <<"dnsServers", "1.1.1.1">> >> }

NextUpdates ==
    \/ \E id \in RequestIds : UpdateRead(id)
    \/ UpdateNotFound
    \/ UpdateInvalidState
    \/ \E c \in FieldUpdateInputs : UpdateNoChange(c)
    \/ \E c \in FieldUpdateInputs, t \in UpdateTicketInputs,
          tg \in TagInputs, by \in ActorInputs : UpdateWrite(c, t, tg, by)
    \/ UpdateReturn
    \/ \E j \in DOMAIN jobs : ExecLog(j)
    \/ \E j \in DOMAIN jobs : ExecReturn(j)
    \/ \E j \in DOMAIN jobs : ExecThrow(j)
    \/ \E j \in DOMAIN jobs : JobWrite(j)
    \/ \E j \in DOMAIN jobs : JobAuditRead(j)
    \/ \E j \in DOMAIN jobs : JobAuditWrite(j)
    \/ \E f \in flushes : FlushRead(f)
    \/ \E f \in flushes : FlushWrite(f)

SpecUpdates == InitRestart /\ [][NextUpdates]_vars

\* The server on the document an earlier run left, receiving lifecycle
\* requests whose bodies also carry a resource type outside RESOURCE_TYPES,
\* custom tags that name a mandatory tag, and a ticket on an update: the
\* <<resourceType, tags>> of the provision requests and the <<ticketNumber,
\* tags>> of the update requests.
ProvisionInputs ==
    { <<"storage", NoObject>>,
      <<"lambda", << <<"managed_by", "me">> >> >> }
UpdateInputs ==
    { <<Undefined, NoObject>>,
      <<"J-2", << <<"managed_by", "me">> >> >> }

NextInputs ==
    \/ \E p \in ProvisionInputs :
            ProvisionRead(p[1], << <<"name", "v1">> >>, "J-1", Undefined, p[2],
                          Undefined)
    \/ ProvisionWrite
    \/ ProvisionReturn
    \/ \E id \in RequestIds : UpdateRead(id)
    \/ UpdateNotFound
    \/ UpdateInvalidState
    \/ UpdateNoChange(<< <<"dnsServers", "8.8.8.8">> >>)
    \/ \E u \in UpdateInputs :
            UpdateWrite(<< <<"dnsServers", "8.8.8.8">> >>, u[1], u[2], Undefined)
    \/ UpdateReturn
    \/ \E id \in RequestIds : DecommissionRead(id)
    \/ DecommissionNotFound
    \/ DecommissionAlready
    \/ DecommissionWrite(Undefined, Undefined, Undefined)
    \/ DecommissionReturn
    \/ \E j \in DOMAIN jobs : ExecLog(j)
    \/ \E j \in DOMAIN jobs : ExecReturn(j)
    \/ \E j \in DOMAIN jobs : ExecThrow(j)
    \/ \E j \in DOMAIN jobs : JobWrite(j)
    \/ \E j \in DOMAIN jobs : JobAuditRead(j)
    \/ \E j \in DOMAIN jobs : JobAuditWrite(j)
    \/ \E f \in flushes : FlushRead(f)
    \/ \E f \in flushes : FlushWrite(f)

SpecInputs == InitRestart /\ [][NextInputs]_vars

\* ---------------------------------------------------------------- fairness
\* The lifecycle routes with the requests the server accepts, and the jobs and
\* flushes they start. A request the server refuses changes nothing but its
\* answer, and is left out: an update or decommission request is taken up
\* when the document its handler reads lets it through.
LiveConfig == << <<"dnsServers", "8.8.8.8">> >>

WillUpdate(id) ==
    /\ Find(readInventory, id) # 0
    /\ readInventory.resources[Find(readInventory, id)].status
            \in UpdatableStatuses
    /\ UpdateDiff(readInventory.resources[Find(readInventory, id)].config,
                  LiveConfig) # <<>>
    /\ Len(jobs) < MaxJobs

WillDecommission(id) ==
    /\ Find(readInventory, id) # 0
    /\ ~DecommissionGuard(
            readInventory.resources[Find(readInventory, id)].status)
    /\ Len(jobs) < MaxJobs

NextLifecycle ==
    \/ ProvisionRead("vnet", << <<"name", "v1">> >>, "J-1", Undefined, NoObject,
                     Undefined)
    \/ ProvisionWrite
    \/ ProvisionReturn
    \/ \E id \in RequestIds : WillUpdate(id) /\ UpdateRead(id)
    \/ UpdateWrite(LiveConfig, Undefined, NoObject, Undefined)
    \/ UpdateReturn
    \/ \E id \in RequestIds : WillDecommission(id) /\ DecommissionRead(id)
    \/ DecommissionWrite(Undefined, Undefined, Undefined)
    \/ DecommissionReturn
    \/ \E j \in DOMAIN jobs : ExecLog(j)
    \/ \E j \in DOMAIN jobs : ExecReturn(j)
    \/ \E j \in DOMAIN jobs : ExecThrow(j)
    \/ \E j \in DOMAIN jobs : JobWrite(j)
    \/ \E j \in DOMAIN jobs : JobAuditRead(j)
    \/ \E j \in DOMAIN jobs : JobAuditWrite(j)
    \/ \E f \in flushes : FlushRead(f)
    \/ \E f \in flushes : FlushWrite(f)

\* The steps that do not wait for a client: the awaits of a handler that has
\* read, of a job and of a flush resolve, and the executor returns or throws.
Resolves ==
    \/ ProvisionWrite \/ ProvisionReturn
    \/ UpdateWrite(LiveConfig, Undefined, NoObject, Undefined)
    \/ UpdateReturn
    \/ DecommissionWrite(Undefined, Undefined, Undefined)
    \/ DecommissionReturn
    \/ \E j \in DOMAIN jobs :
            \/ ExecReturn(j) \/ ExecThrow(j)
            \/ JobWrite(j) \/ JobAuditRead(j) \/ JobAuditWrite(j)
    \/ \E f \in flushes : FlushRead(f) \/ FlushWrite(f)

\* Node's event loop runs every continuation that is ready, and the executor
\* returns or throws. Every behaviour of NextLifecycle has finitely many
\* steps (an accepted request starts a job, a job and a flush end after a
\* few steps), so this one condition says what a condition for each handler,
\* job and flush would: no behaviour stops while a step of them can be taken.
SpecLive == Init /\ [][NextLifecycle]_vars /\ WF_vars(Resolves)

\* ---------------------------------------------------------------- mirror
\* readInventory and writeInventory with the remote mirror enabled (DEMO_MODE
\* off and ARM_CLIENT_ID set), called with documents of a bounded set.
DocInputs ==
    { EmptyInventory,
      RestartInventory,
      RestartInventoryOf(<< <<"name", "v2">> >>) }

\* writeInventory(data) up to its await: fs.writeFileSync(LOCAL_INVENTORY, str)
\* and azureBlobUpload is called.
WriteLocal(data) ==
    /\ Len(writes) < MaxWrites
    /\ inventory' = data
    /\ writes' = Append(writes, [doc |-> data, pc |-> "upload"])
    /\ UNCHANGED <<nextId, req, jobs, flushes, blob, got>>

\* azureBlobUpload: bc.upload(content) is done and true is returned; then
\* writeInventory returns.
UploadDone(w) ==
    /\ writes[w].pc = "upload"
    /\ blob' = <<writes[w].doc>>
    /\ writes' = [writes EXCEPT ![w].pc = "returned"]
    /\ UNCHANGED <<inventory, nextId, req, jobs, flushes, got>>

\* azureBlobUpload: createIfNotExists or upload throws; catch (e) logs the
\* error and returns null; then writeInventory returns.
UploadFail(w) ==
    /\ writes[w].pc = "upload"
    /\ writes' = [writes EXCEPT ![w].pc = "returned"]
    /\ UNCHANGED <<inventory, nextId, req, jobs, flushes, blob, got>>

\* azureBlobDownload: the blob's content, or null (here <<>>) when the blob
\* does not exist or the download throws.
azureBlobDownload(throws) == IF throws THEN <<>> ELSE blob

\* readInventory of the mirrored server: the blob if there is one, else the
\* local file.
ReadMirrored(throws) ==
    /\ got' = IF azureBlobDownload(throws) # <<>>
              THEN azureBlobDownload(throws)
              ELSE <<inventory>>
    /\ UNCHANGED <<inventory, nextId, req, jobs, flushes, blob, writes>>

NextMirror ==
    \/ \E data \in DocInputs : WriteLocal(data)
    \/ \E w \in DOMAIN writes : UploadDone(w)
    \/ \E w \in DOMAIN writes : UploadFail(w)
    \/ \E throws \in BOOLEAN : ReadMirrored(throws)

SpecMirror == Init /\ [][NextMirror]_vars

\* ---------------------------------------------------------------- diff
\* The update and plan routes on every stored and requested config of a
\* bounded set: the configs with keys among a, b, c (in every insertion
\* order), a value of a in {1}, of b in {2, 3}, of c in {4, null}.
DiffValues == << <<"a", {"1"}>>, <<"b", {"2", "3"}>>, <<"c", {"4", Null}>> >>

RECURSIVE ConfigsOver(_)
ConfigsOver(ks) ==
    IF ks = {} THEN {<<>>}
    ELSE UNION { { Append(c, <<DiffValues[i][1], v>>) :
                      c \in ConfigsOver(ks \ {i}), v \in DiffValues[i][2] }
                 : i \in ks }

DiffConfigs == UNION { ConfigsOver(ks) : ks \in SUBSET DOMAIN DiffValues }
DiffConfigInputs == DiffConfigs \cup {NoObject}

\* The server starts on a document an earlier run left, in which "d1" is
\* deployed with one of the configs.
InitDiff ==
    /\ inventory \in {RestartInventoryOf(c) : c \in DiffConfigs}
    /\ nextId = 1
    /\ req = Idle
    /\ jobs = <<>>
    /\ flushes = {}
    /\ blob = <<>>
    /\ writes = <<>>
    /\ got = <<>>

\* The update, plan and read routes; the executor of an accepted update has
\* not returned yet.
NextDiff ==
    \/ \E id \in RequestIds : UpdateRead(id)
    \/ UpdateNotFound
    \/ UpdateInvalidState
    \/ \E c \in DiffConfigInputs : UpdateNoChange(c)
    \/ \E c \in DiffConfigInputs, t \in UpdateTicketInputs,
          tg \in TagInputs, by \in ActorInputs : UpdateWrite(c, t, tg, by)
    \/ UpdateReturn
    \/ \E id \in RequestIds, c \in DiffConfigInputs : Plan(id, c)
    \/ \E route \in {"inventory", "history"} : GetInventory(route)
    \/ \E route \in {"resource", "status"}, id \in RequestIds :
            GetResource(route, id)

SpecDiff == InitDiff /\ [][NextDiff]_vars

\* ---------------------------------------------------------------- properties
\* The status the persisted document shows for a deployment id.
NoRecord == "(none)"
StatusOf(inv, id) ==
    IF Find(inv, id) = 0 THEN NoRecord ELSE inv.resources[Find(inv, id)].status

\* The step in which the handler of route `op` sends its 200 and starts the job.
Returns(op) == req.op = op /\ req.pc = "written" /\ req'.pc = "done"

\* C1: when an accepted provision request returns to its caller, the inventory
\* holds a record of the new deployment id whose status is provisioning.
C1_RecordProvisioningAtReturn ==
    [][Returns("provision") => StatusOf(inventory', req.id) = "provisioning"]_vars

\* C2: once the inventory shows a deployment as decommissioned, every later
\* state shows it as decommissioned.
C2_DecommissionedIsFinal ==
    [][\A id \in Ids :
          StatusOf(inventory, id) = "decommissioned"
              => StatusOf(inventory', id) = "decommissioned"]_vars

\* The edges of the lifecycle state machine.
Edges ==
    { <<NoRecord, "provisioning">>,
      <<"provisioning", "deployed">>, <<"provisioning", "failed">>,
      <<"deployed", "updating">>, <<"deployed", "decommissioning">>,
      <<"updating", "deployed">>, <<"updating", "update-failed">>,
      <<"decommissioning", "decommissioned">>,
      <<"decommissioning", "update-failed">> }

\* C3: every change of the status the inventory shows for a deployment is an
\* edge of the state machine; decommissioning is entered from deployed only.
C3_StatusChangesAreEdges ==
    [][\A id \in Ids :
          StatusOf(inventory', id) # StatusOf(inventory, id)
              => <<StatusOf(inventory, id), StatusOf(inventory', id)>> \in Edges]_vars

\* The step in which the handler of route `op` acts on the document it read.
Handles(op) == req.op = op /\ req.pc = "read" /\ req' # req

\* The step in which a request of route `op` is taken up.
Enters(op) == req.pc \in {"idle", "done"} /\ req'.op = op /\ req' # req

\* The record the handler found in the document it read.
Read == req.inv.resources[Find(req.inv, req.id)]

\* The step changes nothing but the request and its answer.
NothingElseChanges == UNCHANGED <<inventory, nextId, jobs, flushes>>

Refused(code, error) ==
    req'.pc = "done" /\ req'.res.code = code /\ req'.res.error = error

\* C4: an update request that finds the deployment in a status other than
\* deployed is answered with InvalidStateError, and the inventory, the jobs
\* and the flushes are what they were.
C4_UpdateNeedsDeployed ==
    [][(Handles("update") /\ Find(req.inv, req.id) # 0
            /\ Read.status # "deployed")
        => (Refused(400, InvalidStateError) /\ NothingElseChanges)]_vars

\* An update of a deployment that is still provisioning has been refused.
C4_Witness ==
    /\ req.op = "update" /\ req.pc = "done"
    /\ req.res.error = InvalidStateError
    /\ req.res.status = "provisioning"
    /\ StatusOf(inventory, req.id) = "provisioning"

\* C5: an update request on a deployed deployment whose requested config has,
\* on every one of its keys, the value the stored config has is answered with
\* NoChangeError, and the inventory (status, config, tags, changeHistory
\* included) is what it was.
C5_EqualConfigIsNoChange ==
    [][(Handles("update") /\ Find(req.inv, req.id) # 0
            /\ Read.status = "deployed"
            /\ \A k \in Keys(OrEmpty(req'.body.config)) :
                    Get(req'.body.config, k) = Get(Read.config, k))
        => (Refused(400, NoChangeError) /\ NothingElseChanges)]_vars

\* An update that names a key with the value it has was refused, and the
\* deployment is still deployed.
C5_Witness ==
    /\ req.op = "update" /\ req.pc = "done"
    /\ req.res.error = NoChangeError
    /\ req.body.config # NoObject
    /\ StatusOf(inventory, req.id) = "deployed"

\* C6: a decommission request that finds the deployment decommissioning or
\* decommissioned is answered with AlreadyInProgressError; the inventory is
\* what it was and no job (hence no audit entry) is started.
C6_DecommissionOnce ==
    [][(Handles("decommission") /\ Find(req.inv, req.id) # 0
            /\ Read.status \in {"decommissioning", "decommissioned"})
        => (Refused(400, AlreadyInProgressError) /\ NothingElseChanges)]_vars

\* A decommission of a deployment that is decommissioning has been refused.
C6_Witness ==
    /\ req.op = "decommission" /\ req.pc = "done"
    /\ req.res.error = AlreadyInProgressError
    /\ req.res.status = "decommissioning"

\* C7: a provision request in which resourceType, config or the ticket is
\* missing is answered with ValidationError, and the records of the
\* inventory, the ids handed out and the jobs are what they were.
C7_ProvisionNeedsAllFields ==
    [][(Enters("provision")
            /\ (\/ Missing(req'.body.resourceType)
                \/ MissingObject(req'.body.config)
                \/ Missing(req'.body.ticketNumber)))
        => (Refused(400, ValidationError) /\ NothingElseChanges)]_vars

\* A provision request with no ticket, and nothing else missing, was refused
\* by a server that tracks a deployment.
C7_Witness ==
    /\ req.op = "provision" /\ req.pc = "done"
    /\ req.res.error = ValidationError
    /\ req.body.resourceType = "vnet"
    /\ req.body.config # NoObject
    /\ req.body.ticketNumber = Undefined
    /\ Len(inventory.resources) = 1

\* C8: a step that answers a request with an error (400 or 404, of any route)
\* starts no job and no flush and leaves the audit history as it was.
C8_RefusedStartsNothing ==
    [][(req' # req /\ req'.pc = "done" /\ req'.res.code >= 400)
        => (jobs' = jobs /\ flushes' = flushes
            /\ inventory'.history = inventory.history)]_vars

\* A decommission of an unknown id was answered 404 while a job was running.
C8_Witness ==
    /\ req.op = "decommission" /\ req.pc = "done"
    /\ req.res.code = 404
    /\ \E j \in DOMAIN jobs : jobs[j].pc = "exec"

\* The value of key k after the requested config is laid over the old one.
NewValue(oldConfig, config, k) ==
    IF k \in Keys(OrEmpty(config)) THEN Get(config, k) ELSE Get(oldConfig, k)

\* The keys of the two configs whose old and new values differ.
Changed(oldConfig, config) ==
    {k \in Keys(oldConfig) \cup Keys(OrEmpty(config)) :
        Get(oldConfig, k) # NewValue(oldConfig, config, k)}

\* C9: for every stored config and requested config of the bounded set, in
\* every key order, the diff of the update route has a key exactly when the
\* key is in one of the two configs and its old and new values differ; each
\* such key is there once, with from = the old value (undefined when the key
\* is absent) and to = the new value. An empty diff is the NoChangeError.
C9_DiffIsTheChangedKeys ==
    [][(Handles("update") /\ Find(req.inv, req.id) # 0
            /\ Read.status = "deployed")
        => LET old == Read.config
               config == req'.body.config
               diff == IF req'.pc = "written" THEN req'.changes.diff ELSE <<>>
           IN /\ Keys(diff) = Changed(old, config)
              /\ Len(diff) = Cardinality(Changed(old, config))
              /\ \A i \in DOMAIN diff :
                    diff[i][2] = [from |-> Get(old, diff[i][1]),
                                  to |-> NewValue(old, config, diff[i][1])]
              /\ (diff = <<>>) = Refused(400, NoChangeError)
              /\ (diff # <<>>) = (req'.pc = "written")]_vars

\* The example: old = {a:1, b:2}, new = {a:1, b:3, c:4} has been diffed to
\* {b: {from: 2, to: 3}, c: {from: undefined, to: 4}}.
C9_Witness ==
    /\ req.op = "update" /\ req.pc = "written"
    /\ req.body.config = << <<"a", "1">>, <<"b", "3">>, <<"c", "4">> >>
    /\ req.changes.diff = << <<"b", [from |-> "2", to |-> "3"]>>,
                             <<"c", [from |-> Undefined, to |-> "4"]>> >>

\* C10: the plan route and the read routes change nothing but the answer: the
\* inventory, the jobs and the flushes are what they were. The diff the plan
\* route answers has the keys and the `to` values of the diff the update route
\* computes for the same stored and proposed config, and its `from` is the old
\* value, or "(not set)" where the old config has no value for the key (the
\* key is absent, or null).
C10_PlanAndReadsAreQueries ==
    [][(req'.op \in {"plan", "inventory", "history", "resource", "status"}
            /\ req' # req)
        => /\ NothingElseChanges
           /\ (req'.op = "plan" /\ req'.res.code = 200) =>
                \E old \in {inventory.resources[Find(inventory, req'.id)].config} :
                \E update \in {UpdateDiff(old, req'.body.config)} :
                    /\ Len(req'.res.diff) = Len(update)
                    /\ \A i \in DOMAIN update :
                        /\ req'.res.diff[i][1] = update[i][1]
                        /\ req'.res.diff[i][2].to = update[i][2].to
                        /\ req'.res.diff[i][2].from =
                              IF update[i][1] \in Keys(old)
                                    /\ Get(old, update[i][1]) # Null
                              THEN Get(old, update[i][1]) ELSE NotSet]_vars

\* A plan has answered a diff with an old value and with the sentinel, while
\* the job of an accepted update was running.
C10_Witness ==
    /\ req.op = "plan" /\ req.pc = "done" /\ req.res.code = 200
    /\ \E i, j \in DOMAIN req.res.diff :
            /\ req.res.diff[i][2].from = NotSet
            /\ req.res.diff[j][2].from \notin {NotSet, Undefined, Null}
    /\ Len(jobs) = 1

\* The sequence `old` is the tail of the sequence `new`: what was there is
\* there, unchanged and in its order, and what is new is in front of it.
IsTail(old, new) ==
    /\ Len(old) <= Len(new)
    /\ \A i \in DOMAIN old : new[Len(new) - Len(old) + i] = old[i]

\* C11: in every step the audit history of the inventory keeps every entry
\* it had, unchanged and in the same order, and new entries come in front.
C11_HistoryAppendOnly ==
    [][IsTail(inventory.history, inventory'.history)]_vars

\* The step in which job j, on the given path, ends the write of its status.
JobWrites(j, path) ==
    /\ j \in DOMAIN jobs
    /\ jobs[j].pc = "write" /\ jobs[j].path = path
    /\ jobs'[j].pc = "audit"

\* The record of a deployment id in a document that has one.
RecordOf(inv, id) == inv.resources[Find(inv, id)]

\* C12: when the executor of a job has returned and the job writes, the
\* inventory shows the deployment as deployed (provision, update) or
\* decommissioned (decommission), with the executor's outputs for a provision
\* or update, lastUpdatedAt set by an update, decommissionedAt set by a
\* decommission, and updatedAt set to the time of the write.
C12_SuccessOutcome ==
    [][\A j \in DOMAIN jobs :
          JobWrites(j, "success") =>
            /\ Find(inventory', jobs[j].id) # 0
            /\ \E r \in {RecordOf(inventory', jobs[j].id)} :
                /\ r.status = IF jobs[j].action = "decommission"
                              THEN "decommissioned" ELSE "deployed"
                /\ r.updatedAt = Now(j, 2)
                /\ jobs[j].action \in {"provision", "update"} => r.outputs = <<>>
                /\ jobs[j].action = "update" => r.lastUpdatedAt = Now(j, 2)
                /\ jobs[j].action = "decommission"
                        => r.decommissionedAt = Now(j, 2)]_vars

\* The audit entries job j has appended that the inventory holds.
EntriesOf(j) == {i \in DOMAIN inventory.history : inventory.history[i].id = j}

\* C13: a job that has ended has exactly one entry in the audit history, with
\* the job's deployment id and action and the result of the path it ended on,
\* in the state it ends and in every later state.
C13_OneEntryPerJob ==
    \A j \in DOMAIN jobs :
        jobs[j].pc = "done" =>
            /\ Cardinality(EntriesOf(j)) = 1
            /\ \A i \in EntriesOf(j) :
                /\ inventory.history[i].deploymentId = jobs[j].id
                /\ inventory.history[i].action = jobs[j].action
                /\ inventory.history[i].result = jobs[j].path

\* Nothing is running: no request is between its read and its answer, every
\* job has ended and no flush is pending.
Quiet ==
    /\ req.pc \in {"idle", "done"}
    /\ \A j \in DOMAIN jobs : jobs[j].pc \in {"done", "escaped"}
    /\ flushes = {}

\* Job j is the last job started for its deployment.
LastJobOfItsDeployment(j) ==
    \A k \in DOMAIN jobs : jobs[k].id = jobs[j].id => k <= j

\* C14: when everything has ended and the last job of a deployment was a
\* provision or an update whose executor failed, the deployment's status is
\* failed (provision) or update-failed (update), the error line of the job is
\* the last of its logs, and the history holds the job's failure entry.
C14_FailureOutcome ==
    \A j \in DOMAIN jobs :
        (/\ Quiet
         /\ LastJobOfItsDeployment(j)
         /\ jobs[j].path = "failure"
         /\ jobs[j].action \in {"provision", "update"})
        => /\ Find(inventory, jobs[j].id) # 0
           /\ \E r \in {RecordOf(inventory, jobs[j].id)} :
                /\ r.status = IF jobs[j].action = "provision"
                              THEN "failed" ELSE "update-failed"
                /\ r.logs # <<>>
                /\ r.logs[Len(r.logs)] = Line(j, 0)
           /\ \E i \in EntriesOf(j) : inventory.history[i].result = "failure"

C16_NothingEscapes ==
    \A j \in DOMAIN jobs : jobs[j].pc # "escaped"

\* C17: the write of an update job whose executor failed leaves the outputs
\* of the deployment as they are in the document the job read, which are the
\* outputs the last successful job recorded; a job that does not find the
\* record writes nothing.
C17_FailureKeepsOutputs ==
    [][\A j \in DOMAIN jobs :
          (JobWrites(j, "failure") /\ jobs[j].action = "update")
              => IF Find(jobs[j].inv, jobs[j].id) # 0
                 THEN /\ Find(inventory', jobs[j].id) # 0
                      /\ RecordOf(inventory', jobs[j].id).outputs
                            = RecordOf(jobs[j].inv, jobs[j].id).outputs
                      /\ RecordOf(inventory', jobs[j].id).outputs = <<>>
                 ELSE inventory' = inventory]_vars

\* An update job whose executor failed has ended on a deployment that was
\* deployed, and the deployment is update-failed.
C17_Witness ==
    \E j \in DOMAIN jobs :
        /\ jobs[j].action = "update" /\ jobs[j].path = "failure"
        /\ jobs[j].pc = "done"
        /\ StatusOf(inventory, jobs[j].id) = "update-failed"
        /\ RecordOf(inventory, jobs[j].id).outputs = <<>>

\* C18: a deployment id that a provision request has returned (its job has
\* been started) has a record in the inventory, in every state from then on.
C18_RecordsAreNeverDeleted ==
    \A j \in DOMAIN jobs :
        jobs[j].action = "provision" => Find(inventory, jobs[j].id) # 0

\* The sequence `old` is the head of the sequence `new`.
IsHead(old, new) ==
    /\ Len(old) <= Len(new)
    /\ \A i \in DOMAIN old : new[i] = old[i]

\* C19: in every step the stored logs of every deployment keep every line
\* they had, at its position; new lines come after them.
C19_LogsAppendOnly ==
    [][\A id \in Ids :
          Find(inventory, id) # 0 =>
            /\ Find(inventory', id) # 0
            /\ IsHead(RecordOf(inventory, id).logs,
                      RecordOf(inventory', id).logs)]_vars

\* C20: no step changes, in the stored config of a deployment, the value of
\* a field that RESOURCE_TYPES marks immutable for its resource type.
C20_ImmutableFieldsKeepTheirValue ==
    [][\A id \in Ids :
          (Find(inventory, id) # 0 /\ Find(inventory', id) # 0) =>
            \A k \in ImmutableFields(RecordOf(inventory, id).resourceType) :
                Get(RecordOf(inventory', id).config, k)
                    = Get(RecordOf(inventory, id).config, k)]_vars

\* The records of a document.
RecordsOf(inv) == {inv.resources[i] : i \in DOMAIN inv.resources}

\* C21: in every state no two records of the inventory have the same id, and
\* in every step (of a handler, a job or a flush) a record that is in the
\* inventory before and after has the id and the resourceType it had: the
\* records of one id have one resourceType and the records of one creation
\* (createdAt is the time the provision route built the entry) have one id.
C21_IdsUniqueAndFixed ==
    /\ [](\A i, k \in DOMAIN inventory.resources :
            inventory.resources[i].id = inventory.resources[k].id => i = k)
    /\ [][\A r \in RecordsOf(inventory), s \in RecordsOf(inventory') :
            /\ r.id = s.id => r.resourceType = s.resourceType
            /\ r.createdAt = s.createdAt => r.id = s.id]_vars

\* The inventory holds two deployments, and the one an earlier run left has
\* been decommissioned by a job that has ended.
C21_Witness ==
    /\ Len(inventory.resources) = 2
    /\ inventory.resources[1].id # inventory.resources[2].id
    /\ \E j \in DOMAIN jobs :
            /\ jobs[j].action = "decommission" /\ jobs[j].pc = "done"
            /\ StatusOf(inventory, jobs[j].id) = "decommissioned"

\* The keys buildTags sets before it spreads the custom tags.
MandatoryTags == {"ticket", "environment", "managed_by", "deployment_id", "created_at"}

\* The step in which the provision or update route persists the record of an
\* accepted request.
Accepts == req.op \in {"provision", "update"} /\ req.pc = "read" /\ req'.pc = "written"

\* C22: in every state the tags of every record hold the five mandatory keys,
\* with managed_by = "terraform-portal" and deployment_id = the record's id,
\* whatever custom tags were supplied; and when an accepted provision or
\* update request that supplies a ticket is persisted, the ticket tag of its
\* record is that ticket.
C22_MandatoryTagsHold ==
    /\ [](\A r \in RecordsOf(inventory) :
            /\ MandatoryTags \subseteq Keys(r.tags)
            /\ Get(r.tags, "managed_by") = "terraform-portal"
            /\ Get(r.tags, "deployment_id") = r.id)
    /\ [][(Accepts /\ ~Missing(req'.body.ticketNumber))
            => /\ Find(inventory', req'.id) # 0
               /\ Get(RecordOf(inventory', req'.id).tags, "ticket")
                    = req'.body.ticketNumber]_vars

\* The step in which the w-th writeInventory call returns.
WriteReturns(w) ==
    w \in DOMAIN writes /\ writes[w].pc = "upload" /\ writes'[w].pc = "returned"

\* C23: when a writeInventory(doc) call of the mirrored server returns, the
\* local file holds doc and the blob holds doc (so the two are equal), also
\* after a failed upload and with another write in flight; and a readInventory
\* that is served when every write has returned gets the document of the
\* last write made.
C23_WriteReachesBothCopies ==
    [][/\ \A w \in DOMAIN writes :
            WriteReturns(w) =>
                /\ inventory' = writes[w].doc
                /\ blob' = <<writes[w].doc>>
       /\ (/\ writes # <<>>
           /\ \A w \in DOMAIN writes : writes[w].pc = "returned"
           /\ got' # got)
          => got' = <<writes[Len(writes)].doc>>]_vars

InProgress(id) ==
    StatusOf(inventory, id) \in {"provisioning", "updating", "decommissioning"}
Terminal(id) ==
    StatusOf(inventory, id) \in {"deployed", "failed", "update-failed", "decommissioned"}

\* C24: with every handler, job and flush step that can be taken eventually
\* taken and an executor that returns or throws, a deployment whose status is
\* provisioning, updating or decommissioning later has a terminal status
\* (deployed, failed, update-failed or decommissioned); in particular it is
\* not in progress forever from any state on.
C24_InProgressEnds ==
    \A id \in Ids : InProgress(id) ~> Terminal(id)

\* C25: in every state the resourceType of every record of the inventory is
\* one of vm, storage, aks, sql, keyvault, vnet; so a provision request with
\* another resourceType leaves no record.
C25_TypesAreEnumerated ==
    \A r \in RecordsOf(inventory) : r.resourceType \in RESOURCE_TYPES

\* The statuses of the lifecycle.
Statuses ==
    {"provisioning", "deployed", "updating", "update-failed",
     "decommissioning", "decommissioned", "failed"}

\* C26: in every state the status of every record of the inventory is one of
\* provisioning, deployed, updating, update-failed, decommissioning,
\* decommissioned, failed.
C26_StatusIsOfTheLifecycle ==
    \A r \in RecordsOf(inventory) : r.status \in Statuses

\* A decommission job whose executor threw has written its status, and a
\* provision job before it had written its own.
C26_Witness ==
    \E j, k \in DOMAIN jobs :
        /\ jobs[k].action = "provision" /\ jobs[k].pc = "done"
        /\ jobs[j].action = "decommission" /\ jobs[j].path = "failure"
        /\ jobs[j].pc = "audit"
        /\ Find(inventory, jobs[j].id) # 0
        /\ RecordOf(inventory, jobs[j].id).status = FailureStatus("decommission")

\* The lines job j has emitted: the lines pushed to its buffer and, on the
\* failure path, the error line of the catch block.
Emitted(j) ==
    jobs[j].logs \o (IF jobs[j].path = "failure" THEN <<Line(j, 0)>> ELSE <<>>)

\* The lines of job j in the stored logs of a record, in stored order.
StoredOf(r, j) == SelectSeq(r.logs, LAMBDA l : l.job = j)

\* C27: when a job has ended and none of its flushes is pending, the lines of
\* that job in the stored logs of its deployment are the lines the job
\* emitted, the completion or error line included, each once and in the
\* order emitted.
C27_StoredLinesAreTheEmittedLines ==
    \A j \in DOMAIN jobs :
        (/\ jobs[j].pc = "done"
         /\ ~\E f \in flushes : f.job = j
         /\ Find(inventory, jobs[j].id) # 0)
        => StoredOf(RecordOf(inventory, jobs[j].id), j) = Emitted(j)

\* A timestamp that has a value (0 is null) keeps it or gets no other value.
SetOnce(old, new) == (old # 0 /\ new # 0) => new = old

\* C28: no step gives createdAt, lastUpdatedAt or decommissionedAt of a
\* deployment a second value: once one of them has a value, every later value
\* of it that is not null is that value, also over several successful updates.
C28_TimestampsSetOnce ==
    [][\A id \in Ids :
          (Find(inventory, id) # 0 /\ Find(inventory', id) # 0) =>
            \E r \in {RecordOf(inventory, id)} :
            \E s \in {RecordOf(inventory', id)} :
                /\ SetOnce(r.createdAt, s.createdAt)
                /\ SetOnce(r.lastUpdatedAt, s.lastUpdatedAt)
                /\ SetOnce(r.decommissionedAt, s.decommissionedAt)]_vars

\* The step in which flush f ends with its write.
FlushWrites(f) == f \in flushes /\ f.read /\ f \notin flushes'

\* C29: a flush writes back the whole document it read, with nothing but the
\* logs of its deployment replaced: after its write the status and the
\* changeHistory of the deployment and the audit history are the ones it
\* read, whatever a request wrote between its read and its write. So a flush
\* of a running job that races a request on the same deployment discards the
\* request's change (the witness).
C29_FlushWritesBackWhatItRead ==
    [][\A f \in flushes :
          (FlushWrites(f) /\ Find(f.inv, jobs[f.job].id) # 0) =>
            \E id \in {jobs[f.job].id} :
                /\ Find(inventory', id) # 0
                /\ RecordOf(inventory', id).status = RecordOf(f.inv, id).status
                /\ RecordOf(inventory', id).changeHistory
                        = RecordOf(f.inv, id).changeHistory
                /\ inventory'.history = f.inv.history]_vars

\* A decommission of a deployment whose provision job is running has been
\* accepted and answered, no job has written yet, no flush is pending, and
\* the inventory shows the deployment as provisioning with no decommission
\* entry in its changeHistory: a flush of the provision job, which read before
\* the request wrote, has written after it.
C29_Witness ==
    /\ req.op = "decommission" /\ req.pc = "done" /\ req.res.code = 200
    /\ Len(jobs) = 2 /\ jobs[1].pc = "exec" /\ jobs[2].pc = "exec"
    /\ jobs[1].id = req.id /\ jobs[2].id = req.id
    /\ jobs[2].action = "decommission"
    /\ flushes = {}
    /\ Find(inventory, req.id) # 0
    /\ RecordOf(inventory, req.id).status = "provisioning"
    /\ \A i \in DOMAIN RecordOf(inventory, req.id).changeHistory :
            RecordOf(inventory, req.id).changeHistory[i].action # "decommission"

\* The status job j writes at the end of its action.
TerminalStatus(j) ==
    IF jobs[j].path = "success" THEN SuccessStatus(jobs[j].action)
    ELSE FailureStatus(jobs[j].action)

\* C30: when the last job started for a deployment has written its terminal
\* status and the inventory shows it, a step that changes the status the
\* inventory shows for the deployment is the write of a handler that accepts
\* a request on it; in particular it is not the write of a flush of that job.
C30_JobOwnsTerminalStatus ==
    [][\A j \in DOMAIN jobs :
          (/\ jobs[j].pc \in {"audit", "auditWrite", "done"}
           /\ LastJobOfItsDeployment(j)
           /\ StatusOf(inventory, jobs[j].id) = TerminalStatus(j)
           /\ StatusOf(inventory', jobs[j].id) # StatusOf(inventory, jobs[j].id))
          => (req.pc = "read" /\ req'.pc = "written" /\ req.id = jobs[j].id)]_vars

\* The update and decommission requests on a deployment the server has
\* accepted: those whose job has been started, and the one whose handler has
\* persisted its record and not answered yet.
AcceptedChanges(id) ==
    Cardinality({j \in DOMAIN jobs :
                    jobs[j].id = id /\ jobs[j].action \in {"update", "decommission"}})
    + (IF req.pc = "written" /\ req.id = id
            /\ req.op \in {"update", "decommission"} THEN 1 ELSE 0)

\* C31: in every step the changeHistory of every deployment keeps every entry
\* it had, unchanged and in its order, with new entries after them; and in
\* every state its length is 1 (the provision entry) + the number of accepted
\* update and decommission requests on the deployment.
C31_ChangeHistoryTracksAccepted ==
    /\ [](\A id \in Ids :
            Find(inventory, id) # 0 =>
                Len(RecordOf(inventory, id).changeHistory)
                    = 1 + AcceptedChanges(id))
    /\ [][\A id \in Ids :
            Find(inventory, id) # 0 =>
                /\ Find(inventory', id) # 0
                /\ IsHead(RecordOf(inventory, id).changeHistory,
                          RecordOf(inventory', id).changeHistory)]_vars

\* Job j has been started and has not ended.
Running(j) == jobs[j].pc \notin {"done", "escaped"}

\* C32: in every state at most one job of a deployment is running: a request
\* on a deployment is accepted, and its job started, only when every job
\* started before for that deployment has ended.
C32_OneJobPerDeployment ==
    \A j, k \in DOMAIN jobs :
        (jobs[j].id = jobs[k].id /\ Running(j) /\ Running(k)) => j = k

\* The step in which job j ends a write of the inventory: of its status, or
\* of its audit entry.
JobStores(j) ==
    /\ j \in DOMAIN jobs
    /\ jobs[j].pc \in {"write", "auditWrite"}
    /\ jobs'[j].pc \in {"audit", "done"}

\* Every record of a deployment other than `id` is after the step what it
\* was before.
OthersUnchanged(id) ==
    \A other \in Ids \ {id} :
        Find(inventory, other) # 0 =>
            /\ Find(inventory', other) # 0
            /\ RecordOf(inventory', other) = RecordOf(inventory, other)

\* C33: a write of the inventory by a job or a flush of one deployment leaves
\* the record of every other deployment (status, config, logs, changeHistory
\* and the rest) as it was before the write, which is what the operations of
\* that other deployment last wrote.
C33_OtherDeploymentsUntouched ==
    [][/\ \A j \in DOMAIN jobs : JobStores(j) => OthersUnchanged(jobs[j].id)
       /\ \A f \in flushes : FlushWrites(f) => OthersUnchanged(jobs[f.job].id)]_vars

\* The step in which the update route persists the record of an accepted
\* request.
AcceptsUpdate == req.op = "update" /\ req.pc = "read" /\ req'.pc = "written"

\* The config `new` is the config `old` overlaid with the requested config:
\* every key of old is a key of new, a key the request does not name has the
\* value it had, and a key the request names has the requested value.
Overlaid(old, config, new) ==
    /\ Keys(old) \subseteq Keys(new)
    /\ Keys(new) = Keys(old) \cup Keys(OrEmpty(config))
    /\ \A k \in Keys(new) : Get(new, k) = NewValue(old, config, k)

\* The stored config has, on every key of the diff of update job j, the value
\* the diff changes it to.
HoldsUpdate(j) ==
    \A i \in DOMAIN jobs[j].changes.diff :
        Get(RecordOf(inventory, jobs[j].id).config, jobs[j].changes.diff[i][1])
            = jobs[j].changes.diff[i][2].to

\* C34: when an update is accepted, the stored config is the config the
\* handler read overlaid with the requested config (no key removed, keys not
\* named unchanged); the write of the update job, on either path, stores the
\* config of the document the job read; and while the update is the last
\* request accepted on its deployment, whatever its job does, the stored
\* config has the values the update set.
C34_UpdateConfigIsOverlaidAndStays ==
    /\ [][AcceptsUpdate =>
            /\ Find(inventory', req.id) # 0
            /\ Overlaid(Read.config, req'.body.config,
                        RecordOf(inventory', req.id).config)]_vars
    /\ [][\A j \in DOMAIN jobs :
            (/\ \E path \in {"success", "failure"} : JobWrites(j, path)
             /\ jobs[j].action = "update"
             /\ Find(jobs[j].inv, jobs[j].id) # 0)
            => RecordOf(inventory', jobs[j].id).config
                    = RecordOf(jobs[j].inv, jobs[j].id).config]_vars
    /\ [](\A j \in DOMAIN jobs :
            (/\ jobs[j].action = "update"
             /\ LastJobOfItsDeployment(j)
             /\ req.pc # "written"
             /\ Find(inventory, jobs[j].id) # 0)
            => HoldsUpdate(j))

\* C35: an update request that finds the deployment failed or update-failed
\* is refused and changes nothing; no step takes a deployment the inventory
\* shows as failed or update-failed to deployed or updating; and once the
\* inventory shows a deployment as failed or update-failed, no later state
\* shows it as deployed or updating.
C35_FailedNeverDeployedAgain ==
    /\ [][(Handles("update") /\ Find(req.inv, req.id) # 0
            /\ Read.status \in {"failed", "update-failed"})
          => (Refused(400, InvalidStateError) /\ NothingElseChanges)]_vars
    /\ [][\A id \in Ids :
            StatusOf(inventory, id) \in {"failed", "update-failed"}
                => StatusOf(inventory', id) \notin {"deployed", "updating"}]_vars
    /\ \A id \in Ids :
        [](StatusOf(inventory, id) \in {"failed", "update-failed"}
            => [](StatusOf(inventory, id) \notin {"deployed", "updating"}))

\* A job of the given action on deployment `id` has taken the success path
\* and written its status.
Succeeded(id, action) ==
    \E j \in DOMAIN jobs :
        /\ jobs[j].id = id /\ jobs[j].action = action
        /\ jobs[j].path = "success"
        /\ jobs[j].pc \in {"audit", "auditWrite", "done"}

\* C36: in every state, a record whose status is decommissioned has a
\* decommissionedAt; a record has a decommissionedAt only if a decommission
\* job of its deployment took the success path, and a lastUpdatedAt only if
\* an update job of its deployment took the success path.
C36_TimestampsMatchStatus ==
    \A r \in RecordsOf(inventory) :
        /\ r.status = "decommissioned" => r.decommissionedAt # 0
        /\ r.decommissionedAt # 0 => Succeeded(r.id, "decommission")
        /\ r.lastUpdatedAt # 0 => Succeeded(r.id, "update")

\* A deployment has been updated by a job that succeeded and then
\* decommissioned by a job that succeeded; both jobs have ended and the record
\* has both timestamps.
C36_Witness ==
    \E r \in RecordsOf(inventory) :
        /\ r.status = "decommissioned"
        /\ r.decommissionedAt # 0 /\ r.lastUpdatedAt # 0
        /\ r.decommissionedAt # r.lastUpdatedAt
        /\ \A j \in DOMAIN jobs : jobs[j].pc = "done"

\* C37: in every state every entry of the audit history names a deployment
\* that has a record in the inventory, an action among provision, update and
\* decommission, and a result that is success or failure; and a job that is
\* on the success path, and so appends a success entry, has found the record
\* of its deployment and set it to the success status of its action.
C37_AuditEntriesAreOfTrackedDeployments ==
    /\ [](\A i \in DOMAIN inventory.history :
            /\ Find(inventory, inventory.history[i].deploymentId) # 0
            /\ inventory.history[i].action \in {"provision", "update", "decommission"}
            /\ inventory.history[i].result \in {"success", "failure"})
    /\ [][\A j \in DOMAIN jobs :
            JobWrites(j, "success") =>
                /\ Find(jobs[j].inv, jobs[j].id) # 0
                /\ StatusOf(inventory', jobs[j].id) = SuccessStatus(jobs[j].action)]_vars

====
